---- MODULE Spec2Model ----
(***************************************************************************)
(* A model of src/main.py: the remote package source                       *)
(* (iterate_mods_from_api, iterate_zip_files_from_api, get_zip_from_cache, *)
(* get_zip_from_api), the extraction driver (get_mods_settings_locale_data,*)
(* get_mod_info, get_mod_settings_locale_data, add_setting_label,          *)
(* add_setting_description) and the artifact store                         *)
(* (save_mod_settings_data), with the files and the byte cache they touch. *)
(*                                                                         *)
(* Python dicts are functions whose DOMAIN is the dict's key set, lists    *)
(* are sequences, None is a tagged record (or NoVersion for a version).    *)
(* Version strings are compared by Python's string order; they are         *)
(* modelled by the totally ordered set 1..MaxVersion.                      *)
(***************************************************************************)
EXTENDS Integers, Sequences, FiniteSets, TLC

VARIABLES
    pc,           \* where the process is: idle, core, load, iter, save, split,
                  \* split_locales, done, fatal, error, interrupted, no_auth,
                  \* killed
    run,          \* number of runs of main() started so far
    index,        \* enumerate() index of the item being handled
    bad_zip_file_consecutive_count,
    mod_data,     \* the in-memory packages map
    locale_data,  \* the in-memory settings map
    disk,         \* the artifacts: path -> file
    cache,        \* the byte cache: mod name -> directory
    sv,           \* the frame of the running save_mod_settings_data call
    last,         \* the pair the source yielded last, and what decided it
    unsaved,      \* items handled since the checkpoint on disk was last written
    cfg,          \* the environment of the run: catalog, downloads, core locales
    by_locale     \* main()'s by_locale, what update_game_locale_data returned

vars == <<pc, run, index, bad_zip_file_consecutive_count, mod_data, locale_data,
          disk, cache, sv, last, unsaved, cfg, by_locale>>

(***************************************************************************)
(* Bounds of the model.                                                    *)
(***************************************************************************)
MaxVersion == 2      \* version strings "1" < "2" < ...
MaxItems == 2        \* catalog items per run, data-rich specification
SourceItems == 3     \* catalog items per run, source specification
LongItems == 11      \* catalog items per run, long-run specification
MaxRuns == 2         \* runs of main(), data-rich specification
SourceRuns == 1      \* runs of main(), source specification
LongRuns == 2        \* runs of main(), long-run specification
BadItems == 5        \* catalog items of the run, bad-archive specification
ResumeItems == 11    \* catalog items, resume specification
ResumeRuns == 3      \* runs of main(), resume specification
MaxUpserts == 3      \* upserts applied in a row, upsert specification
MaxKeys == 2         \* keys of one section, config specification
MaxSections == 2     \* sections of one config, config specification

(***************************************************************************)
(* Program constants.                                                      *)
(***************************************************************************)
CheckpointEvery == 10     \* index % 10 == 0
BadZipThreshold == 3      \* bad_zip_file_consecutive_count > 3
NoVersion == 0            \* None as a version

(***************************************************************************)
(* Dict helpers.                                                           *)
(***************************************************************************)
EmptyDict == [x \in {} |-> x]

Put(f, k, v) == [x \in (DOMAIN f) \cup {k} |-> IF x = k THEN v ELSE f[x]]

\* dict.setdefault(k, v), as the dict it leaves
SetDefault(f, k, v) == IF k \in DOMAIN f THEN f ELSE Put(f, k, v)

Range(s) == {s[i] : i \in DOMAIN s}

Max(S) == CHOOSE x \in S : \A y \in S : y <= x

(***************************************************************************)
(* Paths and files.                                                        *)
(***************************************************************************)
MOD_SETTINGS_DATA_PATH == "mod_settings_data.json"
MOD_SETTINGS_DATA_TEMPORARY_PATH == "mod_settings_data.temporary.json"

BackupPath(path) ==
    IF path = MOD_SETTINGS_DATA_PATH THEN "mod_settings_data.json.bak"
    ELSE "mod_settings_data.temporary.json.bak"

CORE_SETTINGS_DATA_PATH == "core_settings_data.json"
MAIN_DATA_PATH == "settings_data.json"

\* MOD_SETTINGS_DATA_PATH.name.replace(".json", f"-{locale}.json")
LocalePath(locale) ==
    IF locale = "de" THEN "mod_settings_data-de.json"
    ELSE IF locale = "en" THEN "mod_settings_data-en.json"
    ELSE "mod_settings_data-fr.json"

Paths == {MOD_SETTINGS_DATA_PATH, MOD_SETTINGS_DATA_TEMPORARY_PATH,
          BackupPath(MOD_SETTINGS_DATA_PATH),
          BackupPath(MOD_SETTINGS_DATA_TEMPORARY_PATH),
          CORE_SETTINGS_DATA_PATH, MAIN_DATA_PATH,
          LocalePath("de"), LocalePath("en"), LocalePath("fr")}

NoFile == [kind |-> "absent"]
PartialFile == [kind |-> "partial"]      \* opened for writing, dump not finished

\* core_settings_data.json as update_game_locale_data dumps it
CoreFile(core) == [kind |-> "core", core |-> core]

\* The working directory before the first run.
EmptyDisk == [p \in Paths |-> NoFile]

\* Language ids in sorted() order.
LangOrder == <<"de", "en", "fr">>

NoCore == [kind |-> "none"]              \* by_locale=None

(***************************************************************************)
(* Archives, catalog items, download responses.                            *)
(***************************************************************************)
NoZip == [kind |-> "none"]               \* zip_file is None
NotAZip == [kind |-> "not_a_zip"]        \* the bytes zipfile.ZipFile rejects
NoHint == [kind |-> "none"]              \* mod_api_data is None
NoInfo == [kind |-> "absent"]            \* no entry matches RE_INFO

Zip(info, files) == [kind |-> "zip", info |-> info, files |-> files]

ValidInfo(name, title, version) ==
    [kind |-> "valid", name |-> name, title |-> title, version |-> version]

\* latest = NoVersion: the item has no "latest_release"; releases: the versions
\* of its "releases" list.
Item(name, title, latest, releases) ==
    [kind |-> "item", name |-> name, title |-> title, latest |-> latest,
     releases |-> releases]

Update(kind, setting, text) == [kind |-> kind, setting |-> setting, text |-> text]

\* One locale entry of an archive: status is what reading it comes to, updates
\* the add_setting_label / add_setting_description calls its text gives rise to.
LocaleFile(locale, name, status, updates) ==
    [locale |-> locale, name |-> name, status |-> status, updates |-> updates]

(***************************************************************************)
(* iterate_mods_from_api: the version rule.                                *)
(***************************************************************************)
\* new_version of a catalog item
NewVersion(item) ==
    IF item.latest # NoVersion THEN item.latest
    ELSE IF item.releases # {} THEN Max(item.releases)
    ELSE NoVersion

\* What the loop body does with one catalog item: "skip" (yield item, True),
\* "process" (yield item, False) or "type_error" (str >= None raises).
SkipDecision(excluding_mods, item) ==
    IF item.name \notin DOMAIN excluding_mods THEN "process"
    ELSE LET existing_version == excluding_mods[item.name].version
             new_version == NewVersion(item)
         IN  IF existing_version = NoVersion THEN "skip"
             ELSE IF new_version = NoVersion THEN "type_error"
             ELSE IF existing_version >= new_version THEN "skip"
             ELSE "process"

(***************************************************************************)
(* The byte cache.                                                         *)
(***************************************************************************)
\* A package's directory: the identity file, the set of locale entries and
\* the marker.
EmptyDir == [info |-> NoInfo, files |-> {}, complete |-> FALSE]

\* complete.txt exists in the package's directory
HasMarker(c, mod_name) == mod_name \in DOMAIN c /\ c[mod_name].complete

\* The orders in which the elements of a set can be listed.
Orderings(files) ==
    {q \in [1..Cardinality(files) -> files] :
        \A i, j \in 1..Cardinality(files) : q[i] = q[j] => i = j}

\* mod_dir.glob("**/*"): the cached entries in the directory order of the file
\* system, which is any order
CacheListings(c, mod_name) ==
    IF mod_name \in DOMAIN c THEN Orderings(c[mod_name].files) ELSE {<<>>}

\* get_zip_from_cache: the archive written from the directory, entry by entry
\* in the order of the listing; every entry of it can be read
ZipFromCache(c, mod_name, listing) ==
    IF HasMarker(c, mod_name) THEN Zip(c[mod_name].info, listing) ELSE NoZip

SamePath(f, g) == f.locale = g.locale /\ f.name = g.name

\* open_cached_file(mod_name, locale_filename, "wb") and the copy written to it
CacheFile(c, mod_name, file) ==
    LET dir == SetDefault(c, mod_name, EmptyDir)[mod_name]
        files == {g \in dir.files : ~SamePath(g, file)} \cup {file}
    IN  Put(c, mod_name, [dir EXCEPT !.files = files])

\* open_cached_file(mod_name, info_filename) and the json.dump into it
CacheInfo(c, mod_name, info) ==
    LET dir == SetDefault(c, mod_name, EmptyDir)[mod_name]
    IN  Put(c, mod_name, [dir EXCEPT !.info = info])

\* open_cached_file(mod_name, "complete.txt")
CacheComplete(c, mod_name) ==
    LET dir == SetDefault(c, mod_name, EmptyDir)[mod_name]
    IN  Put(c, mod_name, [dir EXCEPT !.complete = TRUE])

(***************************************************************************)
(* get_zip_from_api.                                                       *)
(***************************************************************************)
HasDownloadUrl(mod_api_data) ==
    mod_api_data.latest # NoVersion \/ mod_api_data.releases # {}

\* The ZipFile that is returned out of "with tempfile.NamedTemporaryFile()":
\* its temporary file is closed, namelist() answers from the directory read
\* before, and every open() of an entry raises ValueError, which get_mod_info
\* takes as an identity file it cannot read and get_mod_settings_locale_data
\* as an entry it cannot extract.
ClosedArchive(zip) ==
    Zip(IF zip.info = NoInfo THEN NoInfo ELSE [kind |-> "malformed"],
        [i \in DOMAIN zip.files |->
            LocaleFile(zip.files[i].locale, zip.files[i].name, "extract_error", <<>>)])

\* response: what the download returns, NotAZip or an archive
ZipFromApi(mod_api_data, response) ==
    IF ~HasDownloadUrl(mod_api_data) THEN [zip |-> NoZip, bad_zip |-> FALSE]
    ELSE IF response = NotAZip THEN [zip |-> NoZip, bad_zip |-> TRUE]
    ELSE [zip |-> ClosedArchive(response), bad_zip |-> FALSE]

(***************************************************************************)
(* iterate_zip_files_from_api: one turn of its loop.                       *)
(* status: "yield", "fatal" (the credentials exception) or "type_error";   *)
(* origin: what produced the archive component.                            *)
(***************************************************************************)
Yielded(zip, count, should_skip, origin) ==
    [status |-> "yield", zip |-> zip, count |-> count,
     should_skip |-> should_skip, origin |-> origin]

\* A variant that looks in the cache before it applies the version rule.
IterateZipStepCacheFirst(excluding_mods, c, count, item, response, listing) ==
    LET decision == SkipDecision(excluding_mods, item)
        cached == ZipFromCache(c, item.name, listing)
        fetched == ZipFromApi(item, response)
    IN  IF decision = "type_error"
        THEN [status |-> "type_error", zip |-> NoZip, count |-> count,
              should_skip |-> FALSE, origin |-> "none"]
        ELSE IF cached # NoZip THEN Yielded(cached, count, decision = "skip", "cache")
        ELSE IF decision = "skip" THEN Yielded(NoZip, count, TRUE, "skip")
        ELSE IF fetched.bad_zip
             THEN IF count > BadZipThreshold
                  THEN [status |-> "fatal", zip |-> NoZip, count |-> count,
                        should_skip |-> FALSE, origin |-> "bad_zip"]
                  ELSE Yielded(NoZip, count + 1, FALSE, "bad_zip")
        ELSE IF fetched.zip = NoZip THEN Yielded(NoZip, 0, FALSE, "no_url")
        ELSE Yielded(fetched.zip, 0, FALSE, "download")

\* A variant that never resets the counter.
IterateZipStepNoReset(excluding_mods, c, count, item, response, listing) ==
    LET decision == SkipDecision(excluding_mods, item)
        cached == ZipFromCache(c, item.name, listing)
        fetched == ZipFromApi(item, response)
    IN  IF decision = "type_error"
        THEN [status |-> "type_error", zip |-> NoZip, count |-> count,
              should_skip |-> FALSE, origin |-> "none"]
        ELSE IF decision = "skip" THEN Yielded(NoZip, count, TRUE, "skip")
        ELSE IF cached # NoZip THEN Yielded(cached, count, FALSE, "cache")
        ELSE IF fetched.bad_zip
             THEN IF count > BadZipThreshold
                  THEN [status |-> "fatal", zip |-> NoZip, count |-> count,
                        should_skip |-> FALSE, origin |-> "bad_zip"]
                  ELSE Yielded(NoZip, count + 1, FALSE, "bad_zip")
        ELSE IF fetched.zip = NoZip THEN Yielded(NoZip, count, FALSE, "no_url")
        ELSE Yielded(fetched.zip, count, FALSE, "download")

IterateZipStep(excluding_mods, c, count, item, response, listing) ==
    LET decision == SkipDecision(excluding_mods, item)
        cached == ZipFromCache(c, item.name, listing)
        fetched == ZipFromApi(item, response)
    IN  IF decision = "type_error"
        THEN [status |-> "type_error", zip |-> NoZip, count |-> count,
              should_skip |-> FALSE, origin |-> "none"]
        ELSE IF decision = "skip" THEN Yielded(NoZip, count, TRUE, "skip")
        ELSE IF cached # NoZip THEN Yielded(cached, count, FALSE, "cache")
        ELSE IF fetched.bad_zip
             THEN IF count > BadZipThreshold
                  THEN [status |-> "fatal", zip |-> NoZip, count |-> count,
                        should_skip |-> FALSE, origin |-> "bad_zip"]
                  ELSE Yielded(NoZip, count + 1, FALSE, "bad_zip")
        ELSE IF fetched.zip = NoZip THEN Yielded(NoZip, 0, FALSE, "no_url")
        ELSE Yielded(fetched.zip, 0, FALSE, "download")

(***************************************************************************)
(* get_mod_info.                                                           *)
(***************************************************************************)
HintVersion(mod_api_data) ==
    IF mod_api_data.latest # NoVersion THEN mod_api_data.latest
    ELSE IF mod_api_data.releases # {} THEN Max(mod_api_data.releases)
    ELSE NoVersion

InfoFromHint(mod_api_data) ==
    IF mod_api_data # NoHint
    THEN [status |-> "ok", name |-> mod_api_data.name,
          title |-> mod_api_data.title, version |-> HintVersion(mod_api_data),
          cached |-> FALSE]
    ELSE [status |-> "none"]

\* status "ok": the (mod_name, mod_title, version) tuple, cached when the
\* identity file was written to the cache; "none": returns None;
\* "key_error": info_data lacks name, title or version and the lookup raises.
GetModInfo(zip_file, mod_api_data) ==
    LET info == IF zip_file # NoZip THEN zip_file.info ELSE NoInfo
    IN  IF info.kind = "absent" THEN InfoFromHint(mod_api_data)
        ELSE IF info.kind = "malformed" THEN InfoFromHint(mod_api_data)
        ELSE IF info.kind = "missing_field" THEN [status |-> "key_error"]
        ELSE [status |-> "ok", name |-> info.name, title |-> info.title,
              version |-> info.version, cached |-> TRUE]

(***************************************************************************)
(* get_settings_locale_from_config: the two upserts.                       *)
(***************************************************************************)
\* A variant that appends without looking for the name.
AppendSettingNameAlways(md, mod_name, setting_name) ==
    [md EXCEPT ![mod_name].setting_names = Append(@, setting_name)]

AppendSettingName(md, mod_name, setting_name) ==
    IF setting_name \in Range(md[mod_name].setting_names) THEN md
    ELSE [md EXCEPT ![mod_name].setting_names = Append(@, setting_name)]

\* A variant that appends the setting name without the membership test.
AddSettingLabelUnchecked(ld, md, mod_name, locale_name, setting_name, setting_label) ==
    LET ld1 == SetDefault(ld, setting_name,
                   [name |-> setting_name, by_mod_and_language |-> EmptyDict])
        by_mod == SetDefault(ld1[setting_name].by_mod_and_language, mod_name, EmptyDict)
        by_lang == SetDefault(by_mod[mod_name], locale_name,
                   [mod |-> mod_name, locale |-> locale_name,
                    label |-> setting_label, description |-> ""])
        entry == [by_lang[locale_name] EXCEPT !.label = setting_label]
        by_mod2 == Put(by_mod, mod_name, Put(by_lang, locale_name, entry))
    IN  [locale_data |-> [ld1 EXCEPT ![setting_name].by_mod_and_language = by_mod2],
         mod_data |-> [md EXCEPT ![mod_name].setting_names = Append(@, setting_name)]]

AddSettingLabel(ld, md, mod_name, locale_name, setting_name, setting_label) ==
    LET ld1 == SetDefault(ld, setting_name,
                   [name |-> setting_name, by_mod_and_language |-> EmptyDict])
        by_mod == SetDefault(ld1[setting_name].by_mod_and_language, mod_name, EmptyDict)
        by_lang == SetDefault(by_mod[mod_name], locale_name,
                   [mod |-> mod_name, locale |-> locale_name,
                    label |-> setting_label, description |-> ""])
        entry == [by_lang[locale_name] EXCEPT !.label = setting_label]
        by_mod2 == Put(by_mod, mod_name, Put(by_lang, locale_name, entry))
    IN  [locale_data |-> [ld1 EXCEPT ![setting_name].by_mod_and_language = by_mod2],
         mod_data |-> AppendSettingName(md, mod_name, setting_name)]

\* A variant that stores a fresh entry instead of setdefault() and an
\* assignment to its description.
AddSettingDescriptionFresh(ld, md, mod_name, locale_name, setting_name, setting_description) ==
    LET ld1 == SetDefault(ld, setting_name,
                   [name |-> setting_name, by_mod_and_language |-> EmptyDict])
        by_mod == SetDefault(ld1[setting_name].by_mod_and_language, mod_name, EmptyDict)
        entry == [mod |-> mod_name, locale |-> locale_name,
                  label |-> "", description |-> setting_description]
        by_mod2 == Put(by_mod, mod_name, Put(by_mod[mod_name], locale_name, entry))
    IN  [locale_data |-> [ld1 EXCEPT ![setting_name].by_mod_and_language = by_mod2],
         mod_data |-> AppendSettingName(md, mod_name, setting_name)]

AddSettingDescription(ld, md, mod_name, locale_name, setting_name, setting_description) ==
    LET ld1 == SetDefault(ld, setting_name,
                   [name |-> setting_name, by_mod_and_language |-> EmptyDict])
        by_mod == SetDefault(ld1[setting_name].by_mod_and_language, mod_name, EmptyDict)
        by_lang == SetDefault(by_mod[mod_name], locale_name,
                   [mod |-> mod_name, locale |-> locale_name,
                    label |-> "", description |-> setting_description])
        entry == [by_lang[locale_name] EXCEPT !.description = setting_description]
        by_mod2 == Put(by_mod, mod_name, Put(by_lang, locale_name, entry))
    IN  [locale_data |-> [ld1 EXCEPT ![setting_name].by_mod_and_language = by_mod2],
         mod_data |-> AppendSettingName(md, mod_name, setting_name)]

\* The upserts one parsed config makes, in order.
RECURSIVE ApplyUpdates(_, _, _, _, _)
ApplyUpdates(ld, md, mod_name, locale_name, updates) ==
    IF updates = <<>> THEN [locale_data |-> ld, mod_data |-> md]
    ELSE LET u == Head(updates)
             r == IF u.kind = "label"
                  THEN AddSettingLabel(ld, md, mod_name, locale_name, u.setting, u.text)
                  ELSE AddSettingDescription(ld, md, mod_name, locale_name, u.setting, u.text)
         IN  ApplyUpdates(r.locale_data, r.mod_data, mod_name, locale_name, Tail(updates))

(***************************************************************************)
(* get_settings_locale_from_config: from the parsed config to the upserts. *)
(* A section name or a key is a sequence of pieces; "-", "_", "desc",      *)
(* "map", "pref", "user" and "settings" are pieces of their own and no     *)
(* other piece holds any of them, so that the two regular expressions      *)
(* match on pieces as they do on characters.                               *)
(***************************************************************************)
NoMatch == [kind |-> "none"]

\* re.IGNORECASE on a piece of a section name (configparser has already
\* lower-cased the keys)
Fold(piece) == IF piece = "MAP" THEN "map" ELSE piece

\* RE_OLD_LOCALE_SECTION_FORMAT.match(section): "(.*)_(?:map|pref|user)_settings"
\* from the start of the name, the group greedy, nothing asked of what follows
OldSectionMatch(section) ==
    LET at == {i \in 1..(Len(section) - 3) :
                  /\ section[i] = "_"
                  /\ Fold(section[i + 1]) \in {"map", "pref", "user"}
                  /\ section[i + 2] = "_"
                  /\ Fold(section[i + 3]) = "settings"}
    IN  IF at = {} THEN NoMatch
        ELSE [kind |-> "match", group |-> SubSeq(section, 1, Max(at) - 1)]

\* RE_OLD_LOCALE_DESCRIPTION_FORMAT.match(key): "(.*)-desc"
OldDescriptionMatch(key) ==
    LET at == {i \in 1..(Len(key) - 1) : key[i] = "-" /\ key[i + 1] = "desc"}
    IN  IF at = {} THEN NoMatch
        ELSE [kind |-> "match", group |-> SubSeq(key, 1, Max(at) - 1)]

\* f"{prefix}_{setting_suffix}".replace("-", "_")
OldSettingName(prefix, setting_suffix) ==
    LET name == prefix \o <<"_">> \o setting_suffix
    IN  [i \in DOMAIN name |-> IF name[i] = "-" THEN "_" ELSE name[i]]

ModSettingName == <<"mod-setting-name">>
ModSettingDescription == <<"mod-setting-description">>

\* config.items(section): the defaults, updated with the section's own items
ConfigItems(config, section) ==
    LET own == {section.items[i].key : i \in DOMAIN section.items}
        value(k) == (CHOOSE i \in DOMAIN section.items : section.items[i].key = k)
        inherited == [i \in DOMAIN config.defaults |->
                         IF config.defaults[i].key \in own
                         THEN section.items[value(config.defaults[i].key)]
                         ELSE config.defaults[i]]
        defaulted == {config.defaults[i].key : i \in DOMAIN config.defaults}
    IN  inherited \o SelectSeq(section.items, LAMBDA it : it.key \notin defaulted)

RECURSIVE ModernUpdates(_, _)
ModernUpdates(kind, items) ==
    IF items = <<>> THEN <<>>
    ELSE <<Update(kind, Head(items).key, Head(items).value)>>
         \o ModernUpdates(kind, Tail(items))

\* the body of "for key, value in config.items(section)" of a legacy section
RECURSIVE OldUpdates(_, _)
OldUpdates(prefix, items) ==
    IF items = <<>> THEN <<>>
    ELSE LET key == Head(items).key
             description_match == OldDescriptionMatch(key)
             u == IF description_match # NoMatch
                  THEN Update("description",
                              OldSettingName(prefix, description_match.group),
                              Head(items).value)
                  ELSE Update("label", OldSettingName(prefix, key), Head(items).value)
         IN  <<u>> \o OldUpdates(prefix, Tail(items))

\* "for section in config": the sections in order (the DEFAULT section, which
\* comes first, matches nothing)
RECURSIVE OldSectionsUpdates(_, _)
OldSectionsUpdates(config, sections) ==
    IF sections = <<>> THEN <<>>
    ELSE LET match == OldSectionMatch(Head(sections).name)
         IN  (IF match = NoMatch THEN <<>>
              ELSE OldUpdates(match.group, ConfigItems(config, Head(sections))))
             \o OldSectionsUpdates(config, Tail(sections))

\* The add_setting_label / add_setting_description calls of lines 547-570, in
\* order.
UpdatesOfConfig(config) ==
    LET named(n) == SelectSeq(config.sections, LAMBDA sec : sec.name = n)
        of(kind, n) == IF named(n) = <<>> THEN <<>>
                       ELSE ModernUpdates(kind, ConfigItems(config, named(n)[1]))
    IN  of("label", ModSettingName)
        \o of("description", ModSettingDescription)
        \o OldSectionsUpdates(config, config.sections)

(***************************************************************************)
(* get_mod_settings_locale_data: every locale entry, then the marker.      *)
(***************************************************************************)
\* File statuses: "ok"; "extract_error", a ValueError or RuntimeError on
\* reading the entry; "decode_error", bytes that are not UTF-8 or text that
\* configparser rejects; "bad_crc", a zipfile.BadZipFile on reading the entry,
\* which no except clause names: the cache file is left open and empty and the
\* exception leaves the function.
RECURSIVE ProcessLocaleFiles(_, _, _, _, _)
ProcessLocaleFiles(files, mod_name, ld, md, c) ==
    IF files = <<>>
    THEN [status |-> "ok", locale_data |-> ld, mod_data |-> md, cache |-> c]
    ELSE LET f == Head(files)
         IN  IF f.status = "extract_error"
             THEN ProcessLocaleFiles(Tail(files), mod_name, ld, md, c)
             ELSE IF f.status = "bad_crc"
             THEN [status |-> "bad_zip_file", locale_data |-> ld, mod_data |-> md,
                   cache |-> CacheFile(c, mod_name,
                                       LocaleFile(f.locale, f.name, "ok", <<>>))]
             ELSE LET c1 == CacheFile(c, mod_name, f)
                      r == IF f.status = "ok"
                           THEN ApplyUpdates(ld, md, mod_name, f.locale, f.updates)
                           ELSE [locale_data |-> ld, mod_data |-> md]
                  IN  ProcessLocaleFiles(Tail(files), mod_name,
                                         r.locale_data, r.mod_data, c1)

GetModSettingsLocaleData(zip_file, mod_name, ld, md, c) ==
    LET r == ProcessLocaleFiles(zip_file.files, mod_name, ld, md, c)
    IN  IF r.status = "ok"
        THEN [r EXCEPT !.cache = CacheComplete(r.cache, mod_name)]
        ELSE r

(***************************************************************************)
(* get_mods_settings_locale_data: the loop body up to the checkpoint test. *)
(***************************************************************************)
RegisterMod(md, mod_name, mod_title, version) ==
    IF mod_name \in DOMAIN md
    THEN [md EXCEPT ![mod_name].name = mod_name,
                    ![mod_name].title = mod_title,
                    ![mod_name].version = version]
    ELSE Put(md, mod_name, [name |-> mod_name, title |-> mod_title,
                            version |-> version, setting_names |-> <<>>])

\* status "ok", "key_error" when get_mod_info raises, or "bad_zip_file" when
\* get_mod_settings_locale_data does
HandlePair(md, ld, c, mod_api_data, zip_file) ==
    LET mod_info == GetModInfo(zip_file, mod_api_data)
    IN  IF mod_info.status = "key_error"
        THEN [status |-> "key_error", mod_data |-> md, locale_data |-> ld, cache |-> c]
        ELSE IF mod_info.status = "none"
        THEN [status |-> "ok", mod_data |-> md, locale_data |-> ld, cache |-> c]
        ELSE LET c1 == IF mod_info.cached
                       THEN CacheInfo(c, mod_info.name, zip_file.info) ELSE c
                 md1 == RegisterMod(md, mod_info.name, mod_info.title, mod_info.version)
             IN  IF zip_file # NoZip
                 THEN LET r == GetModSettingsLocaleData(zip_file, mod_info.name, ld, md1, c1)
                      IN  [status |-> r.status, mod_data |-> r.mod_data,
                           locale_data |-> r.locale_data, cache |-> r.cache]
                 ELSE [status |-> "ok", mod_data |-> md1, locale_data |-> ld, cache |-> c1]

(***************************************************************************)
(* The cache directory at the points inside the handling of one pair at    *)
(* which the process can be ended.                                         *)
(***************************************************************************)
\* path.parent.mkdir(parents=True, exist_ok=True) of open_cached_file
MkDir(c, mod_name) == SetDefault(c, mod_name, EmptyDir)

\* A cache file that was opened for writing and not written to its end: it
\* is empty, or holds the text up to one of its settings.
Truncations(f) ==
    {LocaleFile(f.locale, f.name, "ok", SubSeq(f.updates, 1, k)) :
        k \in 0..(Len(f.updates) - 1)}
    \cup {LocaleFile(f.locale, f.name, "ok", <<>>)}

\* inside the loop of get_mod_settings_locale_data and at the marker
RECURSIVE CachesInsideFiles(_, _, _)
CachesInsideFiles(files, mod_name, c) ==
    IF files = <<>>
    THEN {c, MkDir(c, mod_name)}
    ELSE IF Head(files).status = "extract_error"
    THEN CachesInsideFiles(Tail(files), mod_name, c)
    ELSE {c, MkDir(c, mod_name)}
         \cup {CacheFile(c, mod_name, t) : t \in Truncations(Head(files))}
         \cup (IF Head(files).status = "bad_crc" THEN {}
               ELSE CachesInsideFiles(Tail(files), mod_name,
                                      CacheFile(c, mod_name, Head(files))))

\* inside get_mod_info, whose json.dump of the identity file can be cut, and
\* inside get_mod_settings_locale_data
CachesInside(c, mod_api_data, zip_file) ==
    IF zip_file = NoZip \/ GetModInfo(zip_file, mod_api_data).status # "ok"
    THEN {c}
    ELSE IF GetModInfo(zip_file, mod_api_data).cached
    THEN {c, MkDir(c, zip_file.info.name),
          CacheInfo(c, zip_file.info.name, [kind |-> "malformed"])}
         \cup CachesInsideFiles(zip_file.files, zip_file.info.name,
                                CacheInfo(c, zip_file.info.name, zip_file.info))
    ELSE CachesInsideFiles(zip_file.files, mod_api_data.name, c)

(***************************************************************************)
(* split_by_locale: what it writes.                                        *)
(***************************************************************************)
\* main_data of an artifact all_data and the core map of core_settings_data.json
MainData(all_data, core) ==
    [kind |-> "main",
     core |-> [l \in Range(all_data.locales) |->
                  IF l \in DOMAIN core THEN core[l] ELSE EmptyDict],
     locales |-> all_data.locales,
     mods |-> all_data.mods]

\* the packages that have an entry of a setting in a language
ModsIn(setting_data, locale) ==
    {m \in DOMAIN setting_data.by_mod_and_language :
        locale \in DOMAIN setting_data.by_mod_and_language[m]}

\* all_data_for_locale: the settings with an entry in the language
LocaleData(all_data, locale) ==
    [kind |-> "locale",
     locale |-> locale,
     settings |->
         [sn \in {x \in DOMAIN all_data.settings :
                     ModsIn(all_data.settings[x], locale) # {}} |->
             [name |-> all_data.settings[sn].name,
              by_mod |-> [m \in ModsIn(all_data.settings[sn], locale) |->
                            all_data.settings[sn].by_mod_and_language[m][locale]]]]]

\* The files after the first k per-locale files were written, the next one
\* left open when cut is TRUE.
RECURSIVE SplitFiles(_, _, _, _, _)
SplitFiles(d, all_data, locales, k, cut) ==
    IF locales = <<>> THEN d
    ELSE IF k = 0
    THEN IF cut THEN [d EXCEPT ![LocalePath(Head(locales))] = PartialFile] ELSE d
    ELSE SplitFiles([d EXCEPT ![LocalePath(Head(locales))] =
                                   LocaleData(all_data, Head(locales))],
                    all_data, Tail(locales), k - 1, cut)

(***************************************************************************)
(* save_mod_settings_data: what it writes.                                 *)
(***************************************************************************)
\* A variant that leaves the core map's keys out.
LocalesOfSettingsOnly(ld, core) ==
    {l \in Range(LangOrder) :
        \E s \in DOMAIN ld : \E m \in DOMAIN ld[s].by_mod_and_language :
            l \in DOMAIN ld[s].by_mod_and_language[m]}

LocalesOf(ld, core) ==
    {l \in Range(LangOrder) :
        \/ \E s \in DOMAIN ld : \E m \in DOMAIN ld[s].by_mod_and_language :
               l \in DOMAIN ld[s].by_mod_and_language[m]
        \/ (core # NoCore /\ l \in DOMAIN core)}

\* sorted(S) for a set of language ids
Sorted(S) == SelectSeq(LangOrder, LAMBDA l : l \in S)

WithSettings(md) == [n \in {m \in DOMAIN md : md[m].setting_names # <<>>} |-> md[n]]

\* A variant that filters in neither mode.
SavedModsUnfiltered(md, temporary) == md

SavedMods(md, temporary) == IF temporary THEN md ELSE WithSettings(md)

SavePath(temporary) ==
    IF temporary THEN MOD_SETTINGS_DATA_TEMPORARY_PATH ELSE MOD_SETTINGS_DATA_PATH

Artifact(md, ld, temporary, core) ==
    [kind |-> "json", core |-> core,
     locales |-> Sorted(LocalesOf(ld, core)),
     mods |-> SavedMods(md, temporary), settings |-> ld]

(***************************************************************************)
(* The environments the specifications run in.                             *)
(***************************************************************************)
Versions == 1..MaxVersion

ReleaseInfos ==
    {[latest |-> v, releases |-> {}] : v \in Versions}
    \cup {[latest |-> NoVersion, releases |-> Versions],
          [latest |-> NoVersion, releases |-> {}]}

Items(names, infos) ==
    {Item(n, "Title", r.latest, r.releases) : n \in names, r \in infos}

\* Archives of the data-rich environment, as the server or the local mods
\* directory holds them: an identity file that names the package, with a title
\* of its own; no identity file and no entry; an identity file that is not
\* JSON; an identity file with no name; an entry whose CRC is wrong; entries
\* that cannot be decoded or extracted next to two that set the same label.
RichArchives ==
    {Zip(ValidInfo("a", "Other title", 1),
         <<LocaleFile("en", "x.cfg", "ok",
                      <<Update("label", "s1", "text"), Update("description", "s1", "text")>>)>>),
     Zip(NoInfo, <<>>),
     Zip([kind |-> "malformed"],
         <<LocaleFile("en", "x.cfg", "ok", <<Update("label", "s1", "text")>>)>>),
     Zip([kind |-> "missing_field"], <<>>),
     Zip(ValidInfo("b", "Title", 1), <<LocaleFile("en", "x.cfg", "bad_crc", <<>>)>>),
     Zip(ValidInfo("b", "Title", 1),
         <<LocaleFile("de", "x.cfg", "decode_error", <<>>),
           LocaleFile("de", "y.cfg", "extract_error", <<>>),
           LocaleFile("en", "x.cfg", "ok",
                      <<Update("description", "s2", "text"), Update("label", "s1", "text")>>),
           LocaleFile("en", "y.cfg", "ok", <<Update("label", "s1", "other")>>)>>)}

\* The cache a call of get_mods_settings_locale_data over one local archive
\* (iterate_local_mod_zip_files: no catalog hint, an archive that can be read)
\* makes of a cache.
LocalCache(c, zip) == HandlePair(EmptyDict, EmptyDict, c, NoHint, zip).cache

\* The caches that runs over at most two local archives leave.
RichCaches ==
    {EmptyDict}
    \cup {LocalCache(EmptyDict, z) : z \in RichArchives}
    \cup {LocalCache(LocalCache(EmptyDict, y), z) : y, z \in RichArchives}

CoreLocales == [l \in {"de", "fr"} |-> [version |-> "1.1"]]

RichEnv ==
    [items |-> [i \in 1..MaxItems |-> Items({"a", "b"}, {[latest |-> 1, releases |-> {}]})],
     responses |-> {NotAZip} \cup RichArchives,
     min_items |-> 0,
     max_items |-> MaxItems,
     max_runs |-> MaxRuns,
     api_auth |-> TRUE,
     cache |-> EmptyDict,
     disk |-> EmptyDisk,
     by_locale |-> CoreLocales]

SourceEnv ==
    [items |-> [i \in 1..SourceItems |-> Items({"a", "b"}, ReleaseInfos)],
     responses |-> {NotAZip, Zip(NoInfo, <<>>)},
     min_items |-> 0,
     max_items |-> SourceItems,
     max_runs |-> SourceRuns,
     api_auth |-> TRUE,
     cache |-> EmptyDict,
     disk |-> EmptyDisk,
     by_locale |-> CoreLocales]

LongEnv ==
    [items |-> [i \in 1..LongItems |-> Items({"a", "b"}, {[latest |-> 1, releases |-> {}]})],
     responses |-> {NotAZip, Zip(NoInfo, <<>>)},
     min_items |-> 0,
     max_items |-> LongItems,
     max_runs |-> LongRuns,
     api_auth |-> TRUE,
     cache |-> EmptyDict,
     disk |-> EmptyDisk,
     by_locale |-> CoreLocales]

\* The source environment over a short catalog, with the credentials file
\* (API_AUTH_FILE) present or missing, and with the cache directory c and the
\* working directory d that earlier runs left.
AuthEnv(present, c, d) ==
    [items |-> [i \in 1..MaxItems |-> Items({"a", "b"}, {[latest |-> 1, releases |-> {}]})],
     responses |-> {NotAZip, Zip(NoInfo, <<>>)},
     min_items |-> 0,
     max_items |-> MaxItems,
     max_runs |-> MaxRuns,
     api_auth |-> present,
     cache |-> c,
     disk |-> d,
     by_locale |-> CoreLocales]

\* One run over a catalog of BadItems items, each a package of its own or
\* package "a" once more, so that five fetches in a row can be corrupted;
\* package "a" also comes with newer releases, and every package also with
\* no release at all.
BadNames == <<"a", "b", "c", "d", "e", "f", "g">>

BadEnv ==
    [items |-> [i \in 1..BadItems |->
                   Items({"a"}, {[latest |-> v, releases |-> {}] : v \in Versions}
                                \cup {[latest |-> NoVersion, releases |-> {}]})
                   \cup Items({BadNames[i]}, {[latest |-> 1, releases |-> {}],
                                              [latest |-> NoVersion, releases |-> {}]})],
     responses |-> {NotAZip, Zip(NoInfo, <<>>)},
     min_items |-> BadItems,
     max_items |-> BadItems,
     max_runs |-> 1,
     api_auth |-> TRUE,
     cache |-> EmptyDict,
     disk |-> EmptyDisk,
     by_locale |-> CoreLocales]

(***************************************************************************)
(* The state machine.                                                      *)
(***************************************************************************)
NoSave == [step |-> "none"]
NoLast == [status |-> "none"]

Stopped == {"idle", "done", "fatal", "error", "interrupted", "no_auth", "killed"}

\* main() is inside split_by_locale
Splitting == {"split", "split_locales"}

InitWith(env) ==
    /\ pc = "idle"
    /\ run = 0
    /\ index = 0
    /\ bad_zip_file_consecutive_count = 0
    /\ mod_data = EmptyDict
    /\ locale_data = EmptyDict
    /\ disk = env.disk
    /\ cache = env.cache
    /\ sv = NoSave
    /\ last = NoLast
    /\ unsaved = 0
    /\ cfg = env
    /\ by_locale = NoCore

\* The data-rich environment, with the cache directory as runs over local
\* archives left it.
Init == \E c \in RichCaches : InitWith([RichEnv EXCEPT !.cache = c])

\* The frame of a save_mod_settings_data call on entry: its arguments, the
\* path and the dict it will dump, and the file at the path before the call.
BeginSave(md, ld, temporary, core) ==
    [step |-> "start", temporary |-> temporary, path |-> SavePath(temporary),
     mod_data |-> md, artifact |-> Artifact(md, ld, temporary, core),
     previous |-> disk[SavePath(temporary)], caught |-> FALSE,
     whole |-> FALSE]

\* main() is started: a new process, with nothing in memory.
StartRun ==
    /\ pc \in Stopped
    /\ run < cfg.max_runs
    /\ run' = run + 1
    /\ pc' = "core"
    /\ mod_data' = EmptyDict
    /\ locale_data' = EmptyDict
    /\ by_locale' = NoCore
    /\ index' = 0
    /\ bad_zip_file_consecutive_count' = 0
    /\ unsaved' = 0
    /\ sv' = NoSave
    /\ last' = NoLast
    /\ UNCHANGED <<disk, cache, cfg>>

\* update_game_locale_data: when core_settings_data.json exists it is loaded,
\* and json.load raises on a file that is not whole; otherwise the core map is
\* made from the locale files of the game and dumped to the path, in place.
UpdateGameLocaleData ==
    /\ pc = "core"
    /\ LET f == disk[CORE_SETTINGS_DATA_PATH]
       IN  IF f = NoFile
           THEN /\ disk' = [disk EXCEPT ![CORE_SETTINGS_DATA_PATH] = CoreFile(cfg.by_locale)]
                /\ by_locale' = cfg.by_locale
                /\ pc' = "load"
           ELSE IF f.kind = "core"
           THEN /\ disk' = disk
                /\ by_locale' = f.core
                /\ pc' = "load"
           ELSE /\ disk' = disk
                /\ by_locale' = by_locale
                /\ pc' = "error"
    /\ UNCHANGED <<run, index, bad_zip_file_consecutive_count, mod_data,
                   locale_data, cache, sv, last, unsaved, cfg>>

\* A variant whose source does not open the credentials file first.
LoadCheckpointWithoutAuth ==
    /\ pc = "load"
    /\ LET f == disk[MOD_SETTINGS_DATA_TEMPORARY_PATH]
       IN  /\ pc' = IF f = PartialFile THEN "error" ELSE "iter"
           /\ mod_data' = IF f.kind = "json" THEN f.mods ELSE EmptyDict
           /\ locale_data' = IF f.kind = "json" THEN f.settings ELSE EmptyDict
    /\ UNCHANGED <<run, index, bad_zip_file_consecutive_count, disk, cache, sv,
                   last, unsaved, cfg, by_locale>>

\* get_mods_settings_locale_data reads the checkpoint, if there is one, and
\* makes the source; the for loop's first next() runs the source up to its
\* first yield, and the remote source begins by opening the credentials file.
LoadCheckpoint ==
    /\ pc = "load"
    /\ LET f == disk[MOD_SETTINGS_DATA_TEMPORARY_PATH]
       IN  /\ pc' = IF f = PartialFile THEN "error"
                    ELSE IF ~cfg.api_auth THEN "no_auth"
                    ELSE "iter"
           /\ mod_data' = IF f.kind = "json" THEN f.mods ELSE EmptyDict
           /\ locale_data' = IF f.kind = "json" THEN f.settings ELSE EmptyDict
    /\ UNCHANGED <<run, index, bad_zip_file_consecutive_count, disk, cache, sv,
                   last, unsaved, cfg, by_locale>>

\* One turn of the for loop of get_mods_settings_locale_data: the source yields
\* the next pair, the driver handles it and either goes on or calls the save.
HandleItem(item, response) ==
    /\ pc = "iter"
    /\ index < cfg.max_items
    /\ \E listing \in CacheListings(cache, item.name) :
       \E y \in {IterateZipStep(mod_data, cache, bad_zip_file_consecutive_count,
                                  item, response, listing)} :
       \E h \in {HandlePair(mod_data, locale_data, cache, item, y.zip)} :
       LET ok == y.status = "yield" /\ h.status = "ok"
       IN  /\ last' = [status |-> y.status, item |-> item,
                       in_map |-> item.name \in DOMAIN mod_data,
                       existing |-> IF item.name \in DOMAIN mod_data
                                    THEN mod_data[item.name].version ELSE NoVersion,
                       cached |-> HasMarker(cache, item.name),
                       response |-> response.kind,
                       should_skip |-> y.should_skip,
                       archive |-> y.zip.kind,
                       identity |-> IF y.zip.kind = "zip" THEN y.zip.info.kind
                                    ELSE "none",
                       count_before |-> bad_zip_file_consecutive_count,
                       processed_as |-> IF GetModInfo(y.zip, item).status = "ok"
                                        THEN GetModInfo(y.zip, item).name
                                        ELSE "none",
                       files |-> IF y.origin = "download" THEN response.files
                                 ELSE IF y.zip.kind = "zip" THEN y.zip.files
                                 ELSE <<>>,
                       complete_before |-> {n \in DOMAIN cache : cache[n].complete},
                       hit_kept_count |->
                           \/ last.status \in {"yield", "fatal"} /\ last.hit_kept_count
                           \/ /\ y.status = "yield" /\ y.origin = "cache"
                              /\ bad_zip_file_consecutive_count > 0,
                       handled |-> h.status]
           /\ bad_zip_file_consecutive_count' = y.count
           /\ mod_data' = IF ok THEN h.mod_data ELSE mod_data
           /\ locale_data' = IF ok THEN h.locale_data ELSE locale_data
           /\ cache' = IF y.status = "yield" THEN h.cache ELSE cache
           /\ unsaved' = IF ok THEN unsaved + 1 ELSE unsaved
           /\ pc' = IF y.status = "fatal" THEN "fatal"
                    ELSE IF ~ok THEN "error"
                    ELSE IF index % CheckpointEvery = 0 THEN "save"
                    ELSE "iter"
           /\ index' = IF ok /\ index % CheckpointEvery # 0 THEN index + 1 ELSE index
           /\ sv' = IF ok /\ index % CheckpointEvery = 0
                    THEN BeginSave(h.mod_data, h.locale_data, TRUE, NoCore)
                    ELSE NoSave
    /\ UNCHANGED <<run, disk, cfg, by_locale>>

\* The source is exhausted: get_mods_settings_locale_data returns and
\* update_mod_locale_data calls the final save.
EndOfCatalog ==
    /\ pc = "iter"
    /\ index >= cfg.min_items
    /\ pc' = "save"
    /\ sv' = BeginSave(mod_data, locale_data, FALSE, by_locale)
    /\ UNCHANGED <<run, index, bad_zip_file_consecutive_count, mod_data,
                   locale_data, disk, cache, last, unsaved, cfg, by_locale>>

\* The dict the caller of save_mod_settings_data holds once the function has
\* chosen what to dump: in final mode the comprehension makes a new dict and
\* binds the local name to it, the dict that was passed in is not touched.
CallerMods(md, temporary) == md

\* The function up to the try: the locales and the dict to dump are made, and
\* if path.exists(): path.rename(backup_path)
SaveRename ==
    /\ pc = "save" /\ sv.step = "start"
    /\ mod_data' = CallerMods(mod_data, sv.temporary)
    /\ disk' = IF disk[sv.path] # NoFile
               THEN [disk EXCEPT ![BackupPath(sv.path)] = disk[sv.path],
                                 ![sv.path] = NoFile]
               ELSE disk
    /\ sv' = [sv EXCEPT !.step = "renamed"]
    /\ UNCHANGED <<pc, run, index, bad_zip_file_consecutive_count,
                   locale_data, cache, last, unsaved, cfg, by_locale>>

\* open(path, "w"): the file exists and is empty
SaveOpen ==
    /\ pc = "save" /\ sv.step = "renamed"
    /\ disk' = [disk EXCEPT ![sv.path] = PartialFile]
    /\ sv' = [sv EXCEPT !.step = "open"]
    /\ UNCHANGED <<pc, run, index, bad_zip_file_consecutive_count, mod_data,
                   locale_data, cache, last, unsaved, cfg, by_locale>>

\* json.dump(...) and the end of the with block: the file is complete
SaveDump ==
    /\ pc = "save" /\ sv.step = "open"
    /\ disk' = [disk EXCEPT ![sv.path] = sv.artifact]
    /\ sv' = [sv EXCEPT !.step = "closed"]
    /\ unsaved' = IF sv.temporary THEN 0 ELSE unsaved
    /\ UNCHANGED <<pc, run, index, bad_zip_file_consecutive_count, mod_data,
                   locale_data, cache, last, cfg, by_locale>>

\* A KeyboardInterrupt inside the try block: the except block is entered.
\* The interrupt comes before the file is opened, or inside json.dump with the
\* file not whole, or once the file is whole and before the try block is left
\* (whole): the except block then finds the complete new file at the path.
SaveCatch ==
    /\ pc = "save" /\ sv.step \in {"renamed", "open"}
    /\ \E whole \in IF sv.step = "open" THEN BOOLEAN ELSE {FALSE} :
          /\ disk' = IF whole THEN [disk EXCEPT ![sv.path] = sv.artifact]
                     ELSE disk
          /\ sv' = [sv EXCEPT !.step = "except", !.caught = TRUE,
                              !.whole = whole]
    /\ UNCHANGED <<pc, run, index, bad_zip_file_consecutive_count, mod_data,
                   locale_data, cache, last, unsaved, cfg, by_locale>>

\* except block: if path.exists(): path.unlink()
SaveUnlink ==
    /\ pc = "save" /\ sv.step = "except"
    /\ disk' = [disk EXCEPT ![sv.path] = NoFile]
    /\ sv' = [sv EXCEPT !.step = "unlinked"]
    /\ UNCHANGED <<pc, run, index, bad_zip_file_consecutive_count, mod_data,
                   locale_data, cache, last, unsaved, cfg, by_locale>>

\* except block: if backup_path.exists(): backup_path.rename(path); the
\* function goes on after the block.
SaveRestore ==
    /\ pc = "save" /\ sv.step = "unlinked"
    /\ disk' = IF disk[BackupPath(sv.path)] # NoFile
               THEN [disk EXCEPT ![sv.path] = disk[BackupPath(sv.path)],
                                 ![BackupPath(sv.path)] = NoFile]
               ELSE disk
    /\ sv' = [sv EXCEPT !.step = "closed"]
    /\ UNCHANGED <<pc, run, index, bad_zip_file_consecutive_count, mod_data,
                   locale_data, cache, last, unsaved, cfg, by_locale>>

\* if backup_path.exists(): backup_path.unlink(), and the return to the caller:
\* the loop goes on after a checkpoint, main() calls split_by_locale after the
\* final artifact.
SaveReturn ==
    /\ pc = "save" /\ sv.step = "closed"
    /\ disk' = [disk EXCEPT ![BackupPath(sv.path)] = NoFile]
    /\ sv' = [sv EXCEPT !.step = "returned"]
    /\ pc' = IF sv.temporary THEN "iter" ELSE "split"
    /\ index' = IF sv.temporary THEN index + 1 ELSE index
    /\ UNCHANGED <<run, bad_zip_file_consecutive_count, mod_data, locale_data,
                   cache, last, unsaved, cfg, by_locale>>

\* The catalog's candidates for the item at an enumerate() index.
ItemsAt(i) == IF i + 1 \in DOMAIN cfg.items THEN cfg.items[i + 1] ELSE {}

\* split_by_locale, up to the first loop: json.load of the final artifact and
\* of core_settings_data.json, which raises when there is none or it is not
\* whole, and the json.dump of main_data.
SplitMain ==
    /\ pc = "split"
    /\ LET all_data == disk[MOD_SETTINGS_DATA_PATH]
           core_data == disk[CORE_SETTINGS_DATA_PATH]
       IN  IF all_data.kind = "json" /\ core_data.kind = "core"
           THEN /\ disk' = [disk EXCEPT ![MAIN_DATA_PATH] = MainData(all_data, core_data.core)]
                /\ pc' = "split_locales"
           ELSE /\ disk' = disk
                /\ pc' = "error"
    /\ UNCHANGED <<run, index, bad_zip_file_consecutive_count, mod_data,
                   locale_data, cache, sv, last, unsaved, cfg, by_locale>>

\* split_by_locale, the loop over all_data["locales"]: one file per language;
\* main() ends after it.
SplitLocales ==
    /\ pc = "split_locales"
    /\ LET all_data == disk[MOD_SETTINGS_DATA_PATH]
       IN  disk' = SplitFiles(disk, all_data, all_data.locales,
                              Len(all_data.locales), FALSE)
    /\ pc' = "done"
    /\ UNCHANGED <<run, index, bad_zip_file_consecutive_count, mod_data,
                   locale_data, cache, sv, last, unsaved, cfg, by_locale>>

\* A KeyboardInterrupt outside the try block of the save and outside a write
\* (inside update_game_locale_data, while the checkpoint is loaded, between
\* two items, before the rename, after it and before the try, inside the
\* except block before the unlink or before the rename back, after the try,
\* between two writes of split_by_locale): nothing catches it and the process
\* ends.
Interrupt ==
    /\ \/ pc \in {"core", "load", "iter"}
       \/ pc = "save" /\ sv.step \in {"start", "renamed", "except", "unlinked",
                                      "closed"}
       \/ pc \in Splitting
    /\ pc' = "interrupted"
    /\ UNCHANGED <<run, index, bad_zip_file_consecutive_count, mod_data,
                   locale_data, disk, cache, sv, last, unsaved, cfg, by_locale>>

\* The files an end of the process inside split_by_locale can leave: main_data
\* open, or some of the per-locale files written and the next one open, or
\* all of them written and the last with block not yet left.
CutSplit ==
    LET all_data == disk[MOD_SETTINGS_DATA_PATH]
    IN  IF pc = "split"
        THEN {[disk EXCEPT ![MAIN_DATA_PATH] = PartialFile]}
        ELSE {SplitFiles(disk, all_data, all_data.locales, k, cut) :
                 k \in 0..Len(all_data.locales), cut \in BOOLEAN}

\* The file an end of the process inside the json.dump of
\* update_game_locale_data leaves: open(CORE_SETTINGS_DATA_PATH, "w") made
\* it, and nothing removes it.
CutCore(how) ==
    /\ pc = "core"
    /\ disk[CORE_SETTINGS_DATA_PATH] = NoFile
    /\ disk' = [disk EXCEPT ![CORE_SETTINGS_DATA_PATH] = PartialFile]
    /\ pc' = how
    /\ UNCHANGED <<run, index, bad_zip_file_consecutive_count, mod_data,
                   locale_data, cache, sv, last, unsaved, cfg, by_locale>>

\* A KeyboardInterrupt inside the json.dump of update_game_locale_data.
InterruptCore == CutCore("interrupted")

\* A KeyboardInterrupt inside a write of split_by_locale.
InterruptSplit ==
    /\ pc \in Splitting
    /\ disk[MOD_SETTINGS_DATA_PATH].kind = "json"
    /\ disk' \in CutSplit
    /\ pc' = "interrupted"
    /\ UNCHANGED <<run, index, bad_zip_file_consecutive_count, mod_data,
                   locale_data, cache, sv, last, unsaved, cfg, by_locale>>

\* The process is ended, by how = "interrupted" (a KeyboardInterrupt, which
\* nothing inside the loop body catches) or "killed", while the pair of an
\* item is fetched and handled: the maps in memory are lost, the cache
\* directory stays as it is at that point.
CutItem(item, response, how) ==
    /\ pc = "iter"
    /\ index < cfg.max_items
    /\ \E listing \in CacheListings(cache, item.name) :
       \E y \in {IterateZipStep(mod_data, cache, bad_zip_file_consecutive_count,
                                  item, response, listing)} :
          /\ y.status = "yield"
          /\ cache' \in CachesInside(cache, item, y.zip)
    /\ pc' = how
    /\ last' = NoLast
    /\ UNCHANGED <<run, index, bad_zip_file_consecutive_count, mod_data,
                   locale_data, disk, sv, unsaved, cfg, by_locale>>

\* A KeyboardInterrupt while an item is handled.
InterruptItem ==
    \E item \in ItemsAt(index) : \E response \in cfg.responses :
        CutItem(item, response, "interrupted")

\* The catalog gives the next item, the server its answer to a download.
Handle == \E item \in ItemsAt(index) : \E response \in cfg.responses : HandleItem(item, response)

Next ==
    \/ StartRun
    \/ UpdateGameLocaleData
    \/ LoadCheckpoint
    \/ Handle
    \/ EndOfCatalog
    \/ SaveRename
    \/ SaveOpen
    \/ SaveDump
    \/ SaveCatch
    \/ SaveUnlink
    \/ SaveRestore
    \/ SaveReturn
    \/ SplitMain
    \/ SplitLocales
    \/ Interrupt
    \/ InterruptCore
    \/ InterruptSplit
    \/ InterruptItem

Spec == Init /\ [][Next]_vars

SourceInit == InitWith(SourceEnv)
SpecSource == SourceInit /\ [][Next]_vars

LongInit == InitWith(LongEnv)
SpecLong == LongInit /\ [][Next]_vars

BadInit == InitWith(BadEnv)
SpecBad == BadInit /\ [][Next]_vars

\* The cache directory before the first run: empty, or holding package "a"
\* as a run over its local archive left it.
AuthCaches == {c \in RichCaches : DOMAIN c \subseteq {"a"}}

\* The working directory before the first run: empty, or as an earlier run
\* that registered package "a" and wrote its first checkpoint left it.
AuthDisks ==
    {EmptyDisk,
     [EmptyDisk EXCEPT
         ![CORE_SETTINGS_DATA_PATH] = CoreFile(CoreLocales),
         ![MOD_SETTINGS_DATA_TEMPORARY_PATH] =
             Artifact(RegisterMod(EmptyDict, "a", "Title", 1), EmptyDict, TRUE, NoCore)]}

AuthInit ==
    \E present \in BOOLEAN : \E c \in AuthCaches : \E d \in AuthDisks :
        InitWith(AuthEnv(present, c, d))
SpecAuth == AuthInit /\ [][Next]_vars

(***************************************************************************)
(* Runs over local archives: get_mods_settings_locale_data with local set, *)
(* whose source, iterate_local_mod_zip_files, yields no catalog hint and   *)
(* an archive opened from its file, which can be read.                     *)
(***************************************************************************)
LocalEnv ==
    [items |-> <<>>,
     responses |-> {NotAZip} \cup RichArchives,
     min_items |-> 0,
     max_items |-> MaxItems,
     max_runs |-> MaxRuns,
     api_auth |-> TRUE,
     cache |-> EmptyDict,
     disk |-> EmptyDisk,
     by_locale |-> CoreLocales]

LocalInit == InitWith(LocalEnv)

\* One turn of the for loop over the local source; zipfile.ZipFile(mod_zip)
\* raises inside the source when the file is not a ZIP.
HandleLocal(zip_file) ==
    /\ pc = "iter"
    /\ index < cfg.max_items
    /\ \E h \in {IF zip_file = NotAZip
                  THEN [status |-> "bad_zip_file", mod_data |-> mod_data,
                        locale_data |-> locale_data, cache |-> cache]
                  ELSE HandlePair(mod_data, locale_data, cache, NoHint, zip_file)} :
       LET ok == h.status = "ok"
       IN  /\ last' = [status |-> "local",
                       archive |-> zip_file.kind,
                       identity |-> IF zip_file.kind = "zip" THEN zip_file.info.kind
                                    ELSE "none",
                       processed_as |-> IF zip_file.kind = "zip"
                                           /\ zip_file.info.kind = "valid"
                                        THEN zip_file.info.name ELSE "none",
                       files |-> IF zip_file.kind = "zip" THEN zip_file.files ELSE <<>>,
                       zip |-> zip_file,
                       complete_before |-> {n \in DOMAIN cache : cache[n].complete},
                       cache_before |-> cache,
                       mods_before |-> mod_data,
                       settings_before |-> locale_data,
                       handled |-> h.status]
           /\ mod_data' = IF ok THEN h.mod_data ELSE mod_data
           /\ locale_data' = IF ok THEN h.locale_data ELSE locale_data
           /\ cache' = h.cache
           /\ unsaved' = IF ok THEN unsaved + 1 ELSE unsaved
           /\ pc' = IF ~ok THEN "error"
                    ELSE IF index % CheckpointEvery = 0 THEN "save"
                    ELSE "iter"
           /\ index' = IF ok /\ index % CheckpointEvery # 0 THEN index + 1 ELSE index
           /\ sv' = IF ok /\ index % CheckpointEvery = 0
                    THEN BeginSave(h.mod_data, h.locale_data, TRUE, NoCore)
                    ELSE NoSave
    /\ UNCHANGED <<run, bad_zip_file_consecutive_count, disk, cfg, by_locale>>

\* The mods directory gives the next archive.
HandleLocalZip == \E zip_file \in cfg.responses : HandleLocal(zip_file)

\* A KeyboardInterrupt while a local archive is handled: the maps in memory
\* are lost, the cache directory stays as it is at that point.
InterruptLocal ==
    /\ pc = "iter"
    /\ index < cfg.max_items
    /\ \E zip_file \in cfg.responses :
          /\ zip_file.kind = "zip"
          /\ cache' \in CachesInside(cache, NoHint, zip_file)
    /\ pc' = "interrupted"
    /\ last' = NoLast
    /\ UNCHANGED <<run, index, bad_zip_file_consecutive_count, mod_data,
                   locale_data, disk, sv, unsaved, cfg, by_locale>>

NextLocal ==
    \/ StartRun
    \/ UpdateGameLocaleData
    \/ LoadCheckpoint
    \/ HandleLocalZip
    \/ EndOfCatalog
    \/ SaveRename
    \/ SaveOpen
    \/ SaveDump
    \/ SaveCatch
    \/ SaveUnlink
    \/ SaveRestore
    \/ SaveReturn
    \/ SplitMain
    \/ SplitLocales
    \/ Interrupt
    \/ InterruptCore
    \/ InterruptSplit
    \/ InterruptLocal

SpecLocal == LocalInit /\ [][NextLocal]_vars

(***************************************************************************)
(* Runs over one unchanged catalog of valid archives, ended at any point   *)
(* and started again.                                                      *)
(***************************************************************************)
ResumeNames == <<"a", "b", "c">>

\* The package at a catalog position.
ResumeName(i) == ResumeNames[((i - 1) % Len(ResumeNames)) + 1]

\* The valid archives of a package: identified by its own identity file or by
\* the catalog hint, with two settings.
ValidArchives(n) ==
    {Zip(ValidInfo(n, "Other title", 1),
         <<LocaleFile("en", "x.cfg", "ok",
                      <<Update("label", "s1", n), Update("description", "s2", n)>>)>>),
     Zip(NoInfo,
         <<LocaleFile("de", "x.cfg", "ok", <<Update("label", "s1", n)>>)>>)}

\* The catalog lists package a, b, c, a, ... once per position, each at
\* version 1; archive_of is what the server holds for each.
ResumeEnv(archive_of) ==
    [items |-> [i \in 1..ResumeItems |-> {Item(ResumeName(i), "Title", 1, {})}],
     responses |-> {archive_of[n] : n \in DOMAIN archive_of},
     archive_of |-> archive_of,
     min_items |-> ResumeItems,
     max_items |-> ResumeItems,
     max_runs |-> ResumeRuns,
     api_auth |-> TRUE,
     cache |-> EmptyDict,
     disk |-> EmptyDisk,
     by_locale |-> CoreLocales]

ArchiveChoices ==
    {f \in [Range(ResumeNames) -> UNION {ValidArchives(n) : n \in Range(ResumeNames)}] :
        \A n \in Range(ResumeNames) : f[n] \in ValidArchives(n)}

\* The cache directory before the first run: empty, or as a run over the
\* same archives in the local mods directory left it.
ResumeCaches(archive_of) ==
    {EmptyDict,
     LocalCache(LocalCache(LocalCache(EmptyDict, archive_of["a"]), archive_of["b"]),
                archive_of["c"])}

ResumeInit ==
    \E archive_of \in ArchiveChoices : \E c \in ResumeCaches(archive_of) :
        InitWith([ResumeEnv(archive_of) EXCEPT !.cache = c])

\* The catalog gives its item at the index, the server the package's archive.
HandleFixed ==
    \E item \in ItemsAt(index) : HandleItem(item, cfg.archive_of[item.name])

\* The process is ended from outside at any point (a crash, a kill): nothing
\* of the process runs any more, the files stay as they are.
Kill ==
    /\ pc \in {"core", "load", "iter", "save"} \cup Splitting
    /\ pc' = "killed"
    /\ UNCHANGED <<run, index, bad_zip_file_consecutive_count, mod_data,
                   locale_data, disk, cache, sv, last, unsaved, cfg, by_locale>>

\* A KeyboardInterrupt while the item at the index is handled.
InterruptFixed ==
    \E item \in ItemsAt(index) : CutItem(item, cfg.archive_of[item.name], "interrupted")

\* The process is ended from outside while the item at the index is handled.
KillItem ==
    \E item \in ItemsAt(index) : CutItem(item, cfg.archive_of[item.name], "killed")

\* The process is ended from outside inside the json.dump of
\* update_game_locale_data.
KillCore == CutCore("killed")

\* The process is ended from outside inside a write of split_by_locale.
KillSplit ==
    /\ pc \in Splitting
    /\ disk[MOD_SETTINGS_DATA_PATH].kind = "json"
    /\ disk' \in CutSplit
    /\ pc' = "killed"
    /\ UNCHANGED <<run, index, bad_zip_file_consecutive_count, mod_data,
                   locale_data, cache, sv, last, unsaved, cfg, by_locale>>

NextResume ==
    \/ StartRun
    \/ UpdateGameLocaleData
    \/ LoadCheckpoint
    \/ HandleFixed
    \/ EndOfCatalog
    \/ SaveRename
    \/ SaveOpen
    \/ SaveDump
    \/ SaveCatch
    \/ SaveUnlink
    \/ SaveRestore
    \/ SaveReturn
    \/ SplitMain
    \/ SplitLocales
    \/ Interrupt
    \/ InterruptCore
    \/ InterruptSplit
    \/ InterruptFixed
    \/ Kill
    \/ KillCore
    \/ KillItem
    \/ KillSplit

SpecResume == ResumeInit /\ [][NextResume]_vars

\* What one uninterrupted run over the catalog from position i on makes of the
\* maps and the cache.
RECURSIVE RunFrom(_, _, _, _, _)
RunFrom(i, md, ld, c, count) ==
    IF i > cfg.max_items THEN [mod_data |-> md, locale_data |-> ld]
    ELSE LET item == CHOOSE it \in cfg.items[i] : TRUE
             y == IterateZipStep(md, c, count, item, cfg.archive_of[item.name],
                                 CHOOSE listing \in CacheListings(c, item.name) : TRUE)
             h == HandlePair(md, ld, c, item, y.zip)
         IN  RunFrom(i + 1, h.mod_data, h.locale_data, h.cache, y.count)

\* The uninterrupted run: no checkpoint, the cache as it was before the first
\* run.
UninterruptedRun == RunFrom(1, EmptyDict, EmptyDict, cfg.cache, 0)

(***************************************************************************)
(* The upserts on their own: get_settings_locale_from_config's two         *)
(* closures, applied to an aggregate that holds two registered packages.   *)
(***************************************************************************)
UpsertEnv ==
    [settings |-> {"s1", "s2"}, mods |-> {"a", "b"}, locales |-> {"en"},
     texts |-> {"x", "y"}, max_upserts |-> MaxUpserts]

UpsertInit ==
    /\ pc = "config"
    /\ run = 0
    /\ index = 0
    /\ bad_zip_file_consecutive_count = 0
    /\ mod_data = RegisterMod(RegisterMod(EmptyDict, "a", "Title", 1), "b", "Title", 1)
    /\ locale_data = EmptyDict
    /\ disk = EmptyDisk
    /\ cache = EmptyDict
    /\ sv = NoSave
    /\ last = NoLast
    /\ unsaved = 0
    /\ cfg = UpsertEnv
    /\ by_locale = NoCore

\* One call of add_setting_label or add_setting_description; last records the
\* call and whether it repeats the call before it.
Upsert(kind, setting_name, mod_name, locale_name, text) ==
    /\ pc = "config"
    /\ index < cfg.max_upserts
    /\ LET call == [status |-> "upsert", kind |-> kind, setting |-> setting_name,
                    mod |-> mod_name, locale |-> locale_name, text |-> text]
           r == IF kind = "label"
                THEN AddSettingLabel(locale_data, mod_data, mod_name, locale_name,
                                     setting_name, text)
                ELSE AddSettingDescription(locale_data, mod_data, mod_name, locale_name,
                                           setting_name, text)
       IN  /\ locale_data' = r.locale_data
           /\ mod_data' = r.mod_data
           /\ last' = [call EXCEPT !.status = IF last.status = "none" THEN "upsert"
                                              ELSE IF [last EXCEPT !.status = "upsert"] = call
                                              THEN "repeat" ELSE "upsert"]
    /\ index' = index + 1
    /\ UNCHANGED <<pc, run, bad_zip_file_consecutive_count, disk, cache, sv,
                   unsaved, cfg, by_locale>>

UpsertLabel ==
    \E s \in cfg.settings, m \in cfg.mods, l \in cfg.locales, t \in cfg.texts :
        Upsert("label", s, m, l, t)

UpsertDescription ==
    \E s \in cfg.settings, m \in cfg.mods, l \in cfg.locales, t \in cfg.texts :
        Upsert("description", s, m, l, t)

NextUpsert == UpsertLabel \/ UpsertDescription

SpecUpsert == UpsertInit /\ [][NextUpsert]_vars

(***************************************************************************)
(* get_settings_locale_from_config on one parsed config of package "a".    *)
(***************************************************************************)
SectionNames ==
    {ModSettingName, ModSettingDescription,
     <<"boiler", "_", "map", "_", "settings">>,
     <<"boiler", "_", "MAP", "_", "settings", "_", "old">>,
     <<"boiler", "_", "settings">>,
     <<"my", "-", "mod", "_", "user", "_", "settings">>}

Keys ==
    {<<"output">>, <<"output", "-", "desc">>, <<"output", "-", "desc", "ription">>,
     <<"max", "-", "output">>}

\* The values of a section's items tell their positions apart.
Values == <<"x", "y", "z">>

ItemLists ==
    UNION {{[i \in 1..n |-> [key |-> ks[i], value |-> Values[i]]] :
               ks \in {f \in [1..n -> Keys] : \A i, j \in 1..n : f[i] = f[j] => i = j}} :
           n \in 0..MaxKeys}

SectionLists ==
    UNION {{[i \in 1..n |-> [name |-> ns[i], items |-> its[i]]] :
               ns \in {f \in [1..n -> SectionNames] : \A i, j \in 1..n : f[i] = f[j] => i = j},
               its \in [1..n -> ItemLists]} :
           n \in 1..MaxSections}

Configs ==
    {[defaults |-> d, sections |-> ss] :
        d \in {<<>>, <<[key |-> <<"output">>, value |-> "d"]>>}, ss \in SectionLists}

ConfigInit ==
    /\ pc = "config"
    /\ run = 0
    /\ index = 0
    /\ bad_zip_file_consecutive_count = 0
    /\ mod_data = RegisterMod(EmptyDict, "a", "Title", 1)
    /\ locale_data = EmptyDict
    /\ disk = EmptyDisk
    /\ cache = EmptyDict
    /\ sv = NoSave
    /\ last = NoLast
    /\ unsaved = 0
    /\ cfg \in {[config |-> c] : c \in Configs}
    /\ by_locale = NoCore

\* The part of get_settings_locale_from_config after the parse: every upsert
\* the config gives rise to, for package "a" and language "en".
ParseConfig ==
    /\ pc = "config"
    /\ LET r == ApplyUpdates(locale_data, mod_data, "a", "en", UpdatesOfConfig(cfg.config))
       IN  /\ locale_data' = r.locale_data
           /\ mod_data' = r.mod_data
    /\ pc' = "parsed"
    /\ last' = [status |-> "parsed"]
    /\ UNCHANGED <<run, index, bad_zip_file_consecutive_count, disk, cache, sv,
                   unsaved, cfg, by_locale>>

NextConfig == ParseConfig

SpecConfig == ConfigInit /\ [][NextConfig]_vars

(***************************************************************************)
(* Crash safety of save_mod_settings_data.                                 *)
(***************************************************************************)
\* The running or last save call met a KeyboardInterrupt after the rename and
\* before the write was complete, and has ended: it returned after its except
\* block, or the interrupt came before the try block and ended the process.
InterruptedAfterRename ==
    \/ sv.step = "returned" /\ sv.caught /\ ~sv.whole
    \/ pc = "interrupted" /\ sv.step = "renamed"

\* C1: after an interrupt between the rename to .bak and the completion of the
\* write, the file at the primary path is the complete previous artifact or the
\* complete new one, never a partial file.
C1_PreviousOrNew ==
    InterruptedAfterRename => disk[sv.path] \in {sv.previous, sv.artifact}

\* The save call started with a complete artifact at the primary path, was
\* interrupted before its write was complete, and has ended.
InterruptedWithPrevious ==
    /\ sv.step # "none"
    /\ sv.previous.kind = "json"
    /\ \/ sv.step = "returned" /\ sv.caught /\ ~sv.whole
       \/ pc = "interrupted" /\ sv.step \in {"start", "renamed"}

\* C2: if a complete primary artifact exists when the save starts and the save
\* is interrupted before the new write completes, then once it has ended the
\* primary path holds the previous content again.
C2_PreviousRestored ==
    InterruptedWithPrevious => disk[sv.path] = sv.previous

\* C3: at every point of a run at most 10 handled items are not reflected in
\* the checkpoint on disk, also after a checkpoint write that was interrupted
\* and rolled back.
C3_AtMostTenUnsaved == unsaved <= CheckpointEvery

(***************************************************************************)
(* The remote source: what it yields and its counter.                      *)
(***************************************************************************)
\* The source has just taken a catalog item whose name is in excluding_mods.
LastInMap == last.status # "none" /\ last.in_map

\* The recorded version is present and >= the catalog's version.
RecordedIsCurrent ==
    /\ LastInMap
    /\ last.existing # NoVersion
    /\ last.existing >= NewVersion(last.item)

\* C4 as stated: an item is yielded as a skip iff its name is in the map, its
\* recorded version is present and that version is >= the catalog's version.
C4_SkipOnlyIfVersionPresent ==
    last.status = "yield" => (last.should_skip <=> RecordedIsCurrent)

\* The item was selected for processing, the cache missed and the download was
\* attempted and did not give a ZIP.
CorruptedFetch ==
    /\ last.status \in {"yield", "fatal"}
    /\ ~last.should_skip /\ ~last.cached
    /\ HasDownloadUrl(last.item) /\ last.response = "not_a_zip"

\* The item was selected for processing, the cache missed and the catalog item
\* has no release to download.
NothingToFetch ==
    /\ last.status = "yield"
    /\ ~last.should_skip /\ ~last.cached
    /\ ~HasDownloadUrl(last.item)

\* C6 as stated: the archive of a yielded pair is none exactly when the item
\* was skipped by the version rule.
C6_NoneIffSkipped ==
    last.status = "yield" => (last.archive = "none" <=> last.should_skip)

\* C6 as the code has it: the archive of a yielded pair is none exactly when
\* the item was skipped by the version rule, or was selected for processing
\* and, the cache missing, its download was corrupted or it had no release to
\* download; otherwise it is a ZIP archive.
C6_NoneIffSkippedOrNoArchive ==
    last.status = "yield" =>
        /\ last.archive \in {"none", "zip"}
        /\ last.archive = "none" <=>
               (last.should_skip \/ CorruptedFetch \/ NothingToFetch)

\* An item selected for processing was yielded with no archive.
C6_ProcessedWithoutArchive ==
    last.status = "yield" /\ ~last.should_skip /\ last.archive = "none"

\* C7: the run aborts on the fourth consecutive corrupted fetch, and on no
\* earlier one: a corrupted fetch is yielded only when fewer than three came
\* before it, and the fatal error comes with exactly three before it.
C7_AbortOnFourth ==
    /\ (CorruptedFetch /\ last.status = "yield") => last.count_before < BadZipThreshold
    /\ last.status = "fatal" => last.count_before = BadZipThreshold

\* C8 as stated: a valid archive, from the network or from the cache, resets
\* the counter; a corrupted fetch increments it by one; nothing else changes it.
C8_CounterAsStated ==
    last.status = "yield" =>
        bad_zip_file_consecutive_count =
            IF last.archive = "zip" THEN 0
            ELSE IF CorruptedFetch THEN last.count_before + 1
            ELSE last.count_before

\* C8 as the code has it: a skipped item and an item served from the cache
\* leave the counter unchanged; a corrupted fetch that is yielded increments it
\* by one; every other attempt to fetch (a valid archive, or no release to
\* download) resets it to 0; the fatal error leaves it as it was.
C8_CounterRule ==
    last.status \in {"yield", "fatal"} =>
        bad_zip_file_consecutive_count =
            IF last.status = "fatal" \/ last.should_skip \/ last.cached
            THEN last.count_before
            ELSE IF CorruptedFetch THEN last.count_before + 1
            ELSE 0

\* Earlier in the run an archive came from the cache while the counter was not
\* 0 and left it as it was, and the last item, with no release to download,
\* reset a counter that was not 0.
C8_CacheHitAfterBadZip ==
    /\ NothingToFetch
    /\ last.count_before > 0
    /\ bad_zip_file_consecutive_count = 0
    /\ last.hit_kept_count

(***************************************************************************)
(* The driver and the aggregate.                                           *)
(***************************************************************************)
\* The step handles a skip item of an ingested package whose catalog version
\* is the recorded one.
SkipOfUnchanged ==
    /\ pc = "iter" /\ unsaved' = unsaved + 1
    /\ last'.status = "yield" /\ last'.should_skip
    /\ last'.in_map /\ last'.existing = NewVersion(last'.item)

\* C5: handling a skip item of an ingested package whose catalog version is
\* unchanged leaves the packages map and the settings map as they were.
C5_SkipIsNoOp ==
    [][SkipOfUnchanged => (mod_data' = mod_data /\ locale_data' = locale_data)]_vars

\* A packages map and a settings map agree: s is in p's setting_names exactly
\* when settings[s].by_mod_and_language has an entry for p, and no
\* setting_names holds a setting twice.
Agree(md, ld) ==
    /\ \A p \in DOMAIN md :
          /\ \A s \in Range(md[p].setting_names) :
                s \in DOMAIN ld /\ p \in DOMAIN ld[s].by_mod_and_language
          /\ Cardinality(Range(md[p].setting_names)) = Len(md[p].setting_names)
    /\ \A s \in DOMAIN ld : \A p \in DOMAIN ld[s].by_mod_and_language :
          /\ p \in DOMAIN md
          /\ s \in Range(md[p].setting_names)
          /\ DOMAIN ld[s].by_mod_and_language[p] # {}

\* C9: after any registrations, upserts, checkpoint writes and checkpoint
\* loads, the packages map and the settings map agree, in memory and in the
\* checkpoint on disk.
C9_SettingNamesExact ==
    /\ Agree(mod_data, locale_data)
    /\ LET f == disk[MOD_SETTINGS_DATA_TEMPORARY_PATH]
       IN  f.kind = "json" => Agree(f.mods, f.settings)

\* A run that loaded a checkpoint holds two packages with entries for one
\* setting, one of them with two settings.
C9_TwoPackagesAfterLoad ==
    /\ run = 2
    /\ \E p \in DOMAIN mod_data : Len(mod_data[p].setting_names) = 2
    /\ \E s \in DOMAIN locale_data :
          Cardinality(DOMAIN locale_data[s].by_mod_and_language) = 2

\* The running or last save call wrote its file to the end.
SaveWritten == sv.step \in {"closed", "returned"} /\ ~sv.caught

\* C10: the final save writes exactly the packages whose setting_names is
\* non-empty, the checkpoint save writes every package, and both leave the
\* caller's packages map as it was.
C10_SavedPackages ==
    SaveWritten =>
        /\ mod_data = sv.mod_data
        /\ disk[sv.path].kind = "json"
        /\ DOMAIN disk[sv.path].mods =
               IF sv.temporary THEN DOMAIN mod_data
               ELSE {p \in DOMAIN mod_data : mod_data[p].setting_names # <<>>}
        /\ \A p \in DOMAIN disk[sv.path].mods : disk[sv.path].mods[p] = mod_data[p]

\* A final save was written while the map held a package with settings and
\* one without.
C10_FinalDropsEmpty ==
    /\ SaveWritten /\ ~sv.temporary
    /\ \E p \in DOMAIN mod_data : mod_data[p].setting_names = <<>>
    /\ \E p \in DOMAIN mod_data : mod_data[p].setting_names # <<>>

(***************************************************************************)
(* The locales list of an artifact.                                        *)
(***************************************************************************)
\* The language ids under settings[*].by_mod_and_language[*] of a written
\* file, united with the keys of its core map.
LanguagesIn(f) ==
    UNION {UNION {DOMAIN f.settings[s].by_mod_and_language[m] :
                     m \in DOMAIN f.settings[s].by_mod_and_language} :
              s \in DOMAIN f.settings}
    \cup (IF f.core = NoCore THEN {} ELSE DOMAIN f.core)

\* C11: in every artifact on disk, the locales list holds exactly the language
\* ids of its settings united with the keys of its core map, each once.
C11_LocalesExact ==
    \A p \in Paths :
        disk[p].kind = "json" =>
            /\ Range(disk[p].locales) = LanguagesIn(disk[p])
            /\ Len(disk[p].locales) = Cardinality(LanguagesIn(disk[p]))

\* A final artifact lists a language that only its settings have and one that
\* only its core map has, next to a checkpoint that lists the settings' only.
C11_SettingsAndCoreLanguages ==
    /\ disk[MOD_SETTINGS_DATA_PATH].kind = "json"
    /\ disk[MOD_SETTINGS_DATA_PATH].locales = <<"de", "en", "fr">>
    /\ disk[MOD_SETTINGS_DATA_TEMPORARY_PATH].kind = "json"
    /\ disk[MOD_SETTINGS_DATA_TEMPORARY_PATH].locales = <<"en">>

(***************************************************************************)
(* Failures inside the driver.                                             *)
(***************************************************************************)
\* An archive without the locale entries that fail to extract, decode or parse.
WithoutFailed(zip) ==
    [zip EXCEPT !.files = SelectSeq(zip.files, LAMBDA f : f.status = "ok")]

\* The archives the source can open.
Archives == {r \in cfg.responses : r.kind = "zip"}

\* C12: a locale entry that fails contributes nothing, so that handling an
\* archive leaves the maps as handling it without its failing entries does;
\* handling an archive that was opened raises nothing, and a run ends with an
\* exception only before it has started iterating (the local source has no
\* bad-archive threshold).
C12_FailuresNeverAbort ==
    /\ \A z \in Archives :
          LET h == HandlePair(mod_data, locale_data, cache, NoHint, z)
              g == HandlePair(mod_data, locale_data, cache, NoHint, WithoutFailed(z))
          IN  h.status = "ok" =>
                  h.mod_data = g.mod_data /\ h.locale_data = g.locale_data
    /\ (last.status = "local" /\ last.archive = "zip") => last.handled = "ok"
    /\ pc = "error" => (last = NoLast /\ sv = NoSave)

\* The identity of the local archive handled last cannot be determined from
\* it.
NoIdentityInArchive ==
    /\ last.status = "local" /\ last.archive = "zip"
    /\ last.identity \in {"absent", "malformed", "missing_field"}

\* The catalog hints get_mod_info is given.
Hints == Items({"a"}, ReleaseInfos)

\* C13: when the identity entry is absent, malformed or lacks a field and no
\* hint is supplied, the archive is reported and skipped, raising nothing and
\* leaving both maps as they were; with a hint the same archive is registered
\* under the hint's name, title and version.
C13_FallbackToHint ==
    NoIdentityInArchive =>
        /\ last.handled = "ok"
        /\ mod_data = last.mods_before
        /\ locale_data = last.settings_before
        /\ \A hint \in Hints :
              LET info == GetModInfo(last.zip, hint)
              IN  /\ info.status = "ok"
                  /\ info.name = hint.name
                  /\ info.title = hint.title
                  /\ info.version = HintVersion(hint)

(***************************************************************************)
(* The credentials file.                                                   *)
(***************************************************************************)
\* C14: with the credentials file missing, a run ends on opening it, or
\* before it is opened: the loop that requests catalog pages and downloads is
\* never entered, no item is yielded, and the cache and every file other than
\* core_settings_data.json stay as they were before the first run, whatever
\* the cache and the checkpoint held.
C14_NoRequestWithoutCredentials ==
    ~cfg.api_auth =>
        /\ pc \in {"idle", "core", "load", "no_auth", "interrupted", "error"}
        /\ last = NoLast /\ index = 0
        /\ cache = cfg.cache
        /\ \A p \in Paths \ {CORE_SETTINGS_DATA_PATH} : disk[p] = cfg.disk[p]

\* A second run has ended on the missing credentials file, with package "a"
\* in the cache and a checkpoint on disk.
C14_EndedOnMissingCredentials ==
    /\ ~cfg.api_auth /\ pc = "no_auth" /\ run = 2
    /\ HasMarker(cache, "a")
    /\ disk[MOD_SETTINGS_DATA_TEMPORARY_PATH].kind = "json"

(***************************************************************************)
(* The checkpoint after a complete run.                                    *)
(***************************************************************************)
\* C15: once a run has exhausted the source and written the final artifact,
\* no checkpoint is left on disk.
C15_CheckpointDiscarded ==
    pc = "done" => disk[MOD_SETTINGS_DATA_TEMPORARY_PATH] = NoFile

(***************************************************************************)
(* The upserts: idempotence and order.                                     *)
(***************************************************************************)
\* C16: an upsert that repeats the call before it, with the same setting,
\* package, language and text, leaves the settings map and the packages map
\* as the first call left them.
C16_UpsertIdempotent ==
    [][last'.status = "repeat" =>
          (locale_data' = locale_data /\ mod_data' = mod_data)]_vars

\* A call has repeated the call before it, on an aggregate that holds another
\* setting of the same package.
C16_UpsertRepeated ==
    /\ last.status = "repeat"
    /\ Len(mod_data[last.mod].setting_names) = 2

\* C17: for every setting, package and language, a label upsert followed by a
\* description upsert and the two in the other order give the same maps, with
\* one entry that holds both the label and the description.
C17_LabelDescriptionOrder ==
    pc = "config" =>
        \A s \in cfg.settings, m \in cfg.mods, l \in cfg.locales :
            \A tl \in cfg.texts, td \in cfg.texts :
                LET l1 == AddSettingLabel(locale_data, mod_data, m, l, s, tl)
                    ld == AddSettingDescription(l1.locale_data, l1.mod_data, m, l, s, td)
                    d1 == AddSettingDescription(locale_data, mod_data, m, l, s, td)
                    dl == AddSettingLabel(d1.locale_data, d1.mod_data, m, l, s, tl)
                    entry == ld.locale_data[s].by_mod_and_language[m][l]
                IN  /\ ld = dl
                    /\ entry.label = tl /\ entry.description = td

\* The description of a triple arrived first and its label second, and the
\* entry holds both.
C17_DescriptionThenLabel ==
    /\ index = 2 /\ last.status = "upsert" /\ last.kind = "label"
    /\ LET entry == locale_data[last.setting].by_mod_and_language[last.mod][last.locale]
       IN  entry.label = "x" /\ entry.description = "y"

(***************************************************************************)
(* Legacy sections.                                                        *)
(***************************************************************************)
\* A name that is <prefix>_(map|pref|user)_settings, and its prefix.
IsLegacyName(section) ==
    /\ Len(section) >= 4
    /\ SubSeq(section, Len(section) - 3, Len(section)) \in
           {<<"_", scope, "_", "settings">> : scope \in {"map", "pref", "user"}}

LegacyPrefix(section) == SubSeq(section, 1, Len(section) - 4)

\* A key that is <suffix>-desc.
IsDescKey(key) ==
    Len(key) >= 2 /\ SubSeq(key, Len(key) - 1, Len(key)) = <<"-", "desc">>

\* The updates a legacy section's items stand for: a description for a key
\* <suffix>-desc, a label for every other key, for the id <prefix>_<suffix>
\* with hyphens as underscores.
RECURSIVE LegacyUpdates(_, _)
LegacyUpdates(prefix, items) ==
    IF items = <<>> THEN <<>>
    ELSE LET key == Head(items).key
             u == IF IsDescKey(key)
                  THEN Update("description",
                              OldSettingName(prefix, SubSeq(key, 1, Len(key) - 2)),
                              Head(items).value)
                  ELSE Update("label", OldSettingName(prefix, key), Head(items).value)
         IN  <<u>> \o LegacyUpdates(prefix, Tail(items))

RECURSIVE LegacySectionsUpdates(_, _)
LegacySectionsUpdates(config, sections) ==
    IF sections = <<>> THEN <<>>
    ELSE (IF IsLegacyName(Head(sections).name)
          THEN LegacyUpdates(LegacyPrefix(Head(sections).name),
                             ConfigItems(config, Head(sections)))
          ELSE <<>>)
         \o LegacySectionsUpdates(config, Tail(sections))

\* The updates of the two modern sections.
ModernSectionsUpdates(config) ==
    LET named(n) == SelectSeq(config.sections, LAMBDA sec : sec.name = n)
        of(kind, n) == IF named(n) = <<>> THEN <<>>
                       ELSE ModernUpdates(kind, ConfigItems(config, named(n)[1]))
    IN  of("label", ModSettingName) \o of("description", ModSettingDescription)

\* C18: the maps a parsed config leaves are those of the modern sections'
\* updates followed, for every section named <prefix>_(map|pref|user)_settings,
\* by a description for each key <suffix>-desc and a label for each other key,
\* on the id <prefix>_<suffix>; every other section gives nothing.
C18_LegacySections ==
    pc = "parsed" =>
        LET r == ApplyUpdates(EmptyDict, RegisterMod(EmptyDict, "a", "Title", 1), "a", "en",
                              ModernSectionsUpdates(cfg.config)
                              \o LegacySectionsUpdates(cfg.config, cfg.config.sections))
        IN  locale_data = r.locale_data /\ mod_data = r.mod_data

(***************************************************************************)
(* What a corrupted fetch leaves in the packages map.                      *)
(***************************************************************************)
\* C19: a package whose archive could not be obtained (the download was
\* corrupted, or there was none) is not recorded at the catalog's version, so
\* that the version rule of a later run selects it again.
C19_NotRecordedWithoutArchive ==
    (last.status = "yield" /\ (CorruptedFetch \/ NothingToFetch)) =>
        /\ \/ last.item.name \notin DOMAIN mod_data
           \/ mod_data[last.item.name].version # NewVersion(last.item)
        /\ SkipDecision(mod_data, last.item) = "process"

(***************************************************************************)
(* Resuming from the checkpoint.                                           *)
(***************************************************************************)
\* The maps hold what the uninterrupted run over the catalog ends with: the
\* same settings map and the same setting_names for every package.
SameAsUninterrupted ==
    LET u == UninterruptedRun
    IN  /\ locale_data = u.locale_data
        /\ DOMAIN mod_data = DOMAIN u.mod_data
        /\ \A p \in DOMAIN mod_data :
              mod_data[p].setting_names = u.mod_data[p].setting_names

\* C20: a run started after an earlier run was ended at any point comes to
\* its end with the maps of the uninterrupted run.
C20_ResumeEquivalence ==
    (run >= 2 /\ pc \in {"done", "error", "fatal"}) =>
        (pc = "done" /\ SameAsUninterrupted)

(***************************************************************************)
(* The completion marker and the cached copies.                            *)
(***************************************************************************)
\* The locale entries of an archive.
LocaleEntries(zip_file) ==
    IF zip_file.kind = "zip" THEN Range(zip_file.files) ELSE {}

\* The source yielded an archive and get_mod_settings_locale_data went
\* through all of its locale entries and wrote the marker; last.files are the
\* locale entries of the archive as the server or the cache held it.
ArchiveProcessed ==
    /\ last.status = "yield"
    /\ last.archive = "zip"
    /\ last.handled = "ok"
    /\ last.processed_as \in DOMAIN cache
    /\ cache[last.processed_as].complete

\* A marker that was not there before the last pair was handled is that of
\* the package the pair was processed as, and all its entries were gone through.
MarkerOnlyAfterAllEntries ==
    last.status = "yield" =>
        \A n \in DOMAIN cache :
            (cache[n].complete /\ n \notin last.complete_before) =>
                (n = last.processed_as /\ last.archive = "zip" /\ last.handled = "ok")

\* Every entry of the archive has its copy in the cache.
AllEntriesCached ==
    ArchiveProcessed => Range(last.files) \subseteq cache[last.processed_as].files

\* The cache holds no locale entry that the archive does not have.
NoForeignEntryCached ==
    ArchiveProcessed => cache[last.processed_as].files \subseteq Range(last.files)

\* C21: the marker of a package is written only after all the locale entries
\* of its archive were gone through, and once it is written the cache holds a
\* copy of every locale entry of that archive, so that the archive
\* get_zip_from_cache makes has the locale entries of the archive and no other.
C21_MarkerMeansFaithfulCache ==
    /\ MarkerOnlyAfterAllEntries
    /\ ArchiveProcessed =>
          \A listing \in CacheListings(cache, last.processed_as) :
              LocaleEntries(ZipFromCache(cache, last.processed_as, listing))
                  = Range(last.files)

====
